---- MODULE Spec2Model ----
(***************************************************************************)
(* State-machine model of the coscup2025 gRPC demo: the auth service       *)
(* (SignUp / SignIn / GetUserProfile, src/auth/func.go), its interceptors  *)
(* (second half of src/media/func.go) and the media service's chunked      *)
(* UploadVideo / DownloadVideo handlers (first half of src/media/func.go)  *)
(* over the in-memory video map (src/unnamed/part_000).                    *)
(***************************************************************************)
EXTENDS Integers, Sequences, FiniteSets, TLC

(***************************************************************************)
(* Bounds of the model.                                                    *)
(***************************************************************************)
\* Most chunks one upload stream delivers before end-of-stream.
MaxChunks == 2
\* Most payload bytes in one upload chunk.
MaxChunkLen == 2
\* Most payload bytes one upload stream carries in total.
MaxBytes == 3
\* The download slice length.  The source uses 1024 * 1024
\* (src/media/func.go:179); the model scales it down so that payloads of a
\* few bytes span several slices.  Every formula below is stated in terms of
\* chunkSize, not of its value.
chunkSize == 2
\* Most tokens the callers keep for later calls.
MaxTokens == 1

\* time.Hour * 24, in seconds (src/auth/func.go:54).
TokenTTL == 86400

VideoIds == {"v1", "v2"}
UploadCalls == {"u1", "u2"}
DownloadCalls == {"d1", "d2"}
SignUpCalls == {"s1", "s2", "s3"}

\* The file the caller of each upload call streams: MaxBytes bytes, all
\* different, and different from the other caller's.  A caller may stop
\* after any prefix and split it into chunks any way it likes.
File(u) == [i \in 1..MaxBytes |-> (IF u = "u1" THEN 0 ELSE 100) + i]

(***************************************************************************)
(* Small helpers.                                                          *)
(***************************************************************************)
Min(a, b) == IF a < b THEN a ELSE b

Last(s) == s[Len(s)]

IsPrefix(s, t) == Len(s) <= Len(t) /\ SubSeq(t, 1, Len(s)) = s

\* s[i:end] of Go: the bytes at 0-based offsets i .. end-1.
Slice(s, i, end) == SubSeq(s, i + 1, end)

\* gRPC metadata: a map from header key to the list of its values.
NoHeaders == [k \in {} |-> <<>>]

\* metadata.MD.Get: the values of a key, empty when the key is absent.
MDGet(md, k) == IF k \in DOMAIN md THEN md[k] ELSE <<>>

\* The payloads of a sequence of download responses, concatenated in order.
RECURSIVE ConcatData(_)
ConcatData(rs) ==
    IF rs = <<>> THEN <<>> ELSE rs[1].Data \o ConcatData(Tail(rs))

(***************************************************************************)
(* Tokens and the interceptors (src/media/func.go:246-356).                *)
(*                                                                         *)
(* A token string is a record: form "jwt" for three well-formed segments   *)
(* (header alg, the key its signature was made with, the claim set),       *)
(* "garbage" for anything jwt.Parse cannot split.  An authorization header *)
(* value is [scheme, token]: the text before the token and the token.      *)
(***************************************************************************)
\* env.DefaultConfig().JWTSecret
secret == "my-secret-key"

SignUpMethod == [service |-> "auth.AuthService", method |-> "SignUp"]
SignInMethod == [service |-> "auth.AuthService", method |-> "SignIn"]
GetUserProfileMethod == [service |-> "auth.AuthService", method |-> "GetUserProfile"]
UploadVideoMethod == [service |-> "media.MediaService", method |-> "UploadVideo"]
DownloadVideoMethod == [service |-> "media.MediaService", method |-> "DownloadVideo"]

\* The unary and the streaming methods the two services register.
UnaryMethods == {SignUpMethod, SignInMethod, GetUserProfileMethod}
StreamMethods == {UploadVideoMethod, DownloadVideoMethod}

\* fmt.Sprintf("user_%d", n)
UserID(n) == <<"user_", n>>

\* jwt.NewWithClaims(HS256, {user_id, sub, iat, exp}) signed with key.
IssueToken(u, key, t) ==
    [form |-> "jwt", alg |-> "HS256", key |-> key,
     claims |-> [user_id |-> u.ID, sub |-> u.Username,
                 iat |-> t, exp |-> t + TokenTTL]]

\* strings.TrimPrefix(auth[0], "Bearer ")
TrimPrefix(v) == IF v.scheme = "Bearer " THEN [v EXCEPT !.scheme = ""] ELSE v

\* token.Method.(*jwt.SigningMethodHMAC)
IsHMAC(alg) == alg \in {"HS256", "HS384", "HS512"}

\* MapClaims.Valid: exp and iat are checked against the clock.
ClaimsValid(claims, t) == t <= claims.exp /\ t >= claims.iat

\* Fault variant of TokenVerifies: the signature is not checked against the key.
TokenVerifiesUnsigned(tokenString, key, t) ==
    /\ tokenString.scheme = ""
    /\ tokenString.token.form = "jwt"
    /\ IsHMAC(tokenString.token.alg)
    /\ ClaimsValid(tokenString.token.claims, t)

\* jwt.Parse(tokenString, keyFunc): err == nil && token.Valid
TokenVerifies(tokenString, key, t) ==
    /\ tokenString.scheme = ""
    /\ tokenString.token.form = "jwt"
    /\ IsHMAC(tokenString.token.alg)
    /\ tokenString.token.key = key
    /\ ClaimsValid(tokenString.token.claims, t)

\* A call context: ok/md are metadata.FromIncomingContext, out is the
\* outgoing metadata, wrapped tells whether the stream handed to the handler
\* is a ServerCtxStream carrying a derived context.
NoCtx == [ok |-> FALSE, md |-> NoHeaders, out |-> NoHeaders, wrapped |-> FALSE]

Denied(ctx, msg) ==
    [handler |-> FALSE, code |-> "Unauthenticated", msg |-> msg, ctx |-> ctx]

Passed(ctx) == [handler |-> TRUE, code |-> "", msg |-> "", ctx |-> ctx]

\* The methods the unary interceptor lets through unauthenticated.
UnaryPublic(fullMethod) == fullMethod = SignUpMethod \/ fullMethod = SignInMethod

\* strings.HasPrefix(info.FullMethod, "/auth.AuthService/")
StreamPublic(fullMethod) == fullMethod.service = "auth.AuthService"

\* The check both interceptors make after the allow-list: metadata present,
\* authorization header present and non-empty, first value verifies.
Authenticate(ctx, key, t) ==
    IF ~ctx.ok THEN Denied(ctx, "no metadata provided")
    ELSE IF "authorization" \notin DOMAIN ctx.md \/ Len(ctx.md["authorization"]) = 0
    THEN Denied(ctx, "authorization token missing")
    ELSE IF ~TokenVerifies(TrimPrefix(ctx.md["authorization"][1]), key, t)
    THEN Denied(ctx, "invalid token")
    ELSE Passed(ctx)

UnaryInterceptor(fullMethod, ctx, key, t) ==
    IF UnaryPublic(fullMethod) THEN Passed(ctx) ELSE Authenticate(ctx, key, t)

\* metadata.AppendToOutgoingContext(ctx, k, v)
AppendToOutgoingContext(ctx, k, v) ==
    [ctx EXCEPT !.out = [h \in DOMAIN ctx.out \cup {k} |->
                            IF h = k THEN MDGet(ctx.out, k) \o <<v>> ELSE ctx.out[h]]]

\* Lines 337-343: the context is substituted only when the verified claim
\* set has a "username" entry; its value goes to the outgoing "x-user-id".
AddUserInfo(ctx) ==
    LET claims == TrimPrefix(ctx.md["authorization"][1]).token.claims
    IN  IF "username" \in DOMAIN claims
        THEN [AppendToOutgoingContext(ctx, "x-user-id", claims["username"])
                 EXCEPT !.wrapped = TRUE]
        ELSE ctx

StreamInterceptor(fullMethod, ctx, key, t) ==
    IF StreamPublic(fullMethod) THEN Passed(ctx)
    ELSE LET a == Authenticate(ctx, key, t)
         IN  IF a.handler THEN Passed(AddUserInfo(ctx)) ELSE a

(***************************************************************************)
(* State.                                                                  *)
(***************************************************************************)
VARIABLES
    videos,     \* mediaServer.videos: video id -> VideoInfo
    up,         \* one UploadVideo call per element of UploadCalls
    down,       \* one DownloadVideo call per element of DownloadCalls
    now,        \* time.Now().Unix()
    users,      \* authServer.users: username -> user
    issued,     \* the tokens SignIn has returned to callers
    reply,      \* what the last unary call returned
    client,     \* per upload call, its caller's side of the stream: the id
                \* of the first chunk sent, the bytes sent so far, and
                \* whether a later chunk was sent under another id
    commits,    \* per video id: the uploads that committed, oldest first
    lookupVer,  \* per download call: Len(commits[id]) at its lookup
    failedSend, \* per download call: the number of the chunk whose
                \* stream.Send failed, 0 while none has
    writes,     \* per upload call: the assignments to s.videos it has made
    created,    \* per username: the record its first successful SignUp made
    returned,   \* the <<username, user id>> pairs SignUp has answered with
    dup,        \* the last unary call was a SignUp, with a username and a
                \* password, for a username that had a record
    mu,         \* mediaServer.mu: the call holding the write lock, "" if
                \* none, and the calls holding the read lock
    amu,        \* authServer.mu: the SignUp call holding it, "" if none
    su          \* one SignUp call, followed statement by statement, per
                \* element of SignUpCalls

vars ==
    <<videos, up, down, now, users, issued, reply, client, commits, lookupVer,
      failedSend, writes, created, returned, dup, mu, amu, su>>

authVars == <<users, issued, reply, created, returned, dup>>
mediaVars == <<videos, up, down, client, commits, lookupVer, failedSend, writes>>
lockVars == <<mu, amu, su>>

NoVideos == [k \in {} |-> <<>>]

NoStream ==
    [id |-> "", bytes |-> <<>>, count |-> 0, mismatch |-> FALSE,
     last |-> "", order |-> "asSent"]

IdleUpload ==
    [pc |-> "idle", handler |-> FALSE, ctx |-> NoCtx,
     videoID |-> "", totalBytes |-> 0, videoData |-> <<>>, chunkCount |-> 0,
     code |-> "", msg |-> "", resp |-> <<>>]

IdleDownload ==
    [pc |-> "idle", handler |-> FALSE, ctx |-> NoCtx,
     req |-> "", videoInfo |-> <<>>, i |-> 0, chunksSent |-> 0, sent |-> <<>>,
     code |-> "", msg |-> ""]

NoLock == [writer |-> "", readers |-> {}]

IdleSignUp ==
    [pc |-> "idle", req |-> [Username |-> "", Password |-> ""],
     userID |-> <<>>, code |-> "", resp |-> <<>>]

NoReply ==
    [method |-> "", handler |-> FALSE, ctx |-> NoCtx,
     code |-> "", msg |-> "", body |-> <<>>]

\* NewMediaServer / NewAuthServer: empty maps; no call has started.
Init ==
    /\ videos = NoVideos
    /\ up = [u \in UploadCalls |-> IdleUpload]
    /\ down = [d \in DownloadCalls |-> IdleDownload]
    /\ now = 0
    /\ users = [k \in {} |-> <<>>]
    /\ issued = {}
    /\ reply = NoReply
    /\ client = [u \in UploadCalls |-> NoStream]
    /\ commits = [v \in VideoIds |-> <<>>]
    /\ lookupVer = [d \in DownloadCalls |-> -1]
    /\ failedSend = [d \in DownloadCalls |-> 0]
    /\ writes = [u \in UploadCalls |-> 0]
    /\ created = [k \in {} |-> <<>>]
    /\ returned = {}
    /\ dup = FALSE
    /\ mu = NoLock
    /\ amu = ""
    /\ su = [c \in SignUpCalls |-> IdleSignUp]

(***************************************************************************)
(* UploadVideo (src/media/func.go:16-134).                                 *)
(***************************************************************************)
\* return status.Error(code, msg): the handler is over.
Return(call, code, msg) == [call EXCEPT !.pc = "done", !.code = code, !.msg = msg]

\* The same for an upload, whose locals go out of scope.
ReturnUpload(call, code, msg) ==
    [Return(call, code, msg) EXCEPT !.videoID = "", !.totalBytes = 0,
                                    !.videoData = <<>>, !.chunkCount = 0]

\* Lines 41-50: the uploader recorded in the metadata comes from the
\* incoming "user-id" / "user-name" headers, with fixed fallbacks.
UploaderID(md) ==
    IF Len(MDGet(md, "user-id")) > 0 THEN MDGet(md, "user-id")[1] ELSE "unknown"

UploaderName(md) ==
    IF Len(MDGet(md, "user-name")) > 0 THEN MDGet(md, "user-name")[1] ELSE "Unknown User"

\* Lines 52-58.
VideoMetadata(call, t) ==
    [UploaderId |-> UploaderID(call.ctx.md),
     UploaderName |-> UploaderName(call.ctx.md),
     UploadTimestamp |-> t,
     FileName |-> call.videoID,
     FileSize |-> call.totalBytes]

\* Fault variant of StoreVideo: replacing an entry keeps its old metadata.
StoreVideoKeepsMetadata(vids, id, info) ==
    [k \in DOMAIN vids \cup {id} |->
        IF k # id THEN vids[k]
        ELSE IF id \in DOMAIN vids THEN [info EXCEPT !.Metadata = vids[id].Metadata]
        ELSE info]

\* Lines 60-65: s.videos[videoID] = &VideoInfo{...} under s.mu.
\* Fault variant of StoreVideo: the map is replaced by one with this entry
\* alone.
StoreVideoFresh(vids, id, info) == [k \in {id} |-> info]

StoreVideo(vids, id, info) ==
    [k \in DOMAIN vids \cup {id} |-> IF k = id THEN info ELSE vids[k]]

\* Fault variant of UploadEOF: a stream that never named a video is stored
\* under the empty id and answered with success.
UploadEOFAcceptsUnnamed(call, vids, t, closeOK) ==
    LET metadata == VideoMetadata(call, t)
        info == [Data |-> call.videoData, Metadata |-> metadata]
        response == [VideoId |-> call.videoID,
                     TotalBytes |-> call.totalBytes,
                     Metadata |-> metadata]
    IN  [call |-> IF closeOK
                  THEN [ReturnUpload(call, "OK", "") EXCEPT !.resp = <<response>>]
                  ELSE ReturnUpload(call, "Unavailable", "SendAndClose failed"),
         videos |-> StoreVideo(vids, call.videoID, info)]

\* Lines 33-86: Recv returned io.EOF.  closeOK is whether SendAndClose
\* delivered the response.
\* Fault variant of UploadEOF: after the commit the loop goes on receiving.
UploadEOFKeepsReceiving(call, vids, t, closeOK) ==
    IF call.videoID = ""
    THEN [call |-> ReturnUpload(call, "InvalidArgument", "no video ID provided"),
          videos |-> vids]
    ELSE [call |-> call,
          videos |-> StoreVideo(vids, call.videoID,
                                [Data |-> call.videoData,
                                 Metadata |-> VideoMetadata(call, t)])]

UploadEOF(call, vids, t, closeOK) ==
    IF call.videoID = ""
    THEN [call |-> ReturnUpload(call, "InvalidArgument", "no video ID provided"),
          videos |-> vids]
    ELSE LET metadata == VideoMetadata(call, t)
             info == [Data |-> call.videoData, Metadata |-> metadata]
             response == [VideoId |-> call.videoID,
                          TotalBytes |-> call.totalBytes,
                          Metadata |-> metadata]
         IN  [call |-> IF closeOK
                       THEN [ReturnUpload(call, "OK", "") EXCEPT !.resp = <<response>>]
                       ELSE ReturnUpload(call, "Unavailable", "SendAndClose failed"),
              videos |-> StoreVideo(vids, call.videoID, info)]

\* Fault variant of UploadRecvError: what was received so far is stored
\* before the call fails.
UploadRecvErrorStoresPartial(call, vids) ==
    [call |-> ReturnUpload(call, "Internal", "failed to receive chunk"),
     videos |-> IF call.videoID = "" THEN vids
                ELSE StoreVideo(vids, call.videoID,
                                [Data |-> call.videoData,
                                 Metadata |-> VideoMetadata(call, 0)])]

\* Fault variant of UploadRecvError: the error is taken for the end of the
\* stream and what was received is committed.
UploadRecvErrorCommits(call, vids) == UploadEOF(call, vids, 0, TRUE)

\* Lines 87-92: Recv returned another error.
UploadRecvError(call, vids) ==
    [call |-> ReturnUpload(call, "Internal", "failed to receive chunk"), videos |-> vids]

\* Lines 94-109: the first chunk with a non-empty id establishes videoID.
EstablishID(videoID, req) == IF videoID = "" THEN req.VideoId ELSE videoID

\* Fault variant of Inconsistent: later chunks' ids are not compared.
InconsistentNever(videoID, req) == FALSE

\* Lines 111-121.
Inconsistent(videoID, req) == req.VideoId # videoID

\* Fault variant of AppendData: the new chunk goes in front.
AppendDataInFront(videoData, data) == data \o videoData

\* Line 123: videoData = append(videoData, req.Data...)
AppendData(videoData, data) == videoData \o data

\* Fault variant of UploadChunk: totalBytes counts chunks, not bytes.
UploadChunkCountsChunks(call, vids, req) ==
    IF call.videoID = "" /\ req.VideoId = ""
    THEN [call |-> ReturnUpload(call, "InvalidArgument", "video ID is required"),
          videos |-> vids]
    ELSE LET videoID == EstablishID(call.videoID, req)
         IN  IF Inconsistent(videoID, req)
             THEN [call |-> ReturnUpload([call EXCEPT !.videoID = videoID],
                                   "InvalidArgument", "inconsistent video ID"),
                   videos |-> vids]
             ELSE [call |-> [call EXCEPT
                                !.videoID = videoID,
                                !.videoData = AppendData(call.videoData, req.Data),
                                !.totalBytes = call.totalBytes + 1,
                                !.chunkCount = call.chunkCount + 1],
                   videos |-> vids]

\* Fault variant of UploadChunk: a chunk whose sequence label was already
\* passed is taken for a duplicate and its payload is dropped.
UploadChunkDropsDuplicates(call, vids, req) ==
    IF call.videoID = "" /\ req.VideoId = ""
    THEN [call |-> ReturnUpload(call, "InvalidArgument", "video ID is required"),
          videos |-> vids]
    ELSE LET videoID == EstablishID(call.videoID, req)
         IN  IF Inconsistent(videoID, req)
             THEN [call |-> ReturnUpload([call EXCEPT !.videoID = videoID],
                                   "InvalidArgument", "inconsistent video ID"),
                   videos |-> vids]
             ELSE IF req.Sequence <= call.chunkCount
             THEN [call |-> [call EXCEPT !.videoID = videoID,
                                         !.chunkCount = call.chunkCount + 1],
                   videos |-> vids]
             ELSE [call |-> [call EXCEPT
                                !.videoID = videoID,
                                !.videoData = AppendData(call.videoData, req.Data),
                                !.totalBytes = call.totalBytes + Len(req.Data),
                                !.chunkCount = call.chunkCount + 1],
                   videos |-> vids]

\* Fault variant of UploadChunk: every accepted chunk is written through to
\* the store as it arrives.
UploadChunkWritesThrough(call, vids, req) ==
    IF call.videoID = "" /\ req.VideoId = ""
    THEN [call |-> ReturnUpload(call, "InvalidArgument", "video ID is required"),
          videos |-> vids]
    ELSE LET videoID == EstablishID(call.videoID, req)
         IN  IF Inconsistent(videoID, req)
             THEN [call |-> ReturnUpload([call EXCEPT !.videoID = videoID],
                                   "InvalidArgument", "inconsistent video ID"),
                   videos |-> vids]
             ELSE LET c == [call EXCEPT
                               !.videoID = videoID,
                               !.videoData = AppendData(call.videoData, req.Data),
                               !.totalBytes = call.totalBytes + Len(req.Data),
                               !.chunkCount = call.chunkCount + 1]
                  IN  [call |-> c,
                       videos |-> StoreVideo(vids, videoID,
                                             [Data |-> c.videoData,
                                              Metadata |-> VideoMetadata(c, 0)])]

\* Lines 94-133: Recv returned a chunk.
UploadChunk(call, vids, req) ==
    IF call.videoID = "" /\ req.VideoId = ""
    THEN [call |-> ReturnUpload(call, "InvalidArgument", "video ID is required"),
          videos |-> vids]
    ELSE LET videoID == EstablishID(call.videoID, req)
         IN  IF Inconsistent(videoID, req)
             THEN [call |-> ReturnUpload([call EXCEPT !.videoID = videoID],
                                   "InvalidArgument", "inconsistent video ID"),
                   videos |-> vids]
             ELSE [call |-> [call EXCEPT
                                !.videoID = videoID,
                                !.videoData = AppendData(call.videoData, req.Data),
                                !.totalBytes = call.totalBytes + Len(req.Data),
                                !.chunkCount = call.chunkCount + 1],
                   videos |-> vids]

\* One turn of the receive loop on what Recv returned.
UploadStep(call, vids, t, ev) ==
    CASE ev.kind = "EOF" -> UploadEOF(call, vids, t, ev.closeOK)
      [] ev.kind = "error" -> UploadRecvError(call, vids)
      [] ev.kind = "chunk" -> UploadChunk(call, vids, ev.req)

\* What Recv can return to an upload whose caller streams `file` and has
\* sent `sent` bytes of it: end-of-stream, an error, or a chunk carrying
\* the next 0..MaxChunkLen bytes under any id and any sequence label (0 is
\* a label left unset).
SequenceLabels == 0..MaxChunks

NoReq == [VideoId |-> "", Data |-> <<>>, Sequence |-> 0]

RecvEvents(call, file, sent) ==
    {[kind |-> "EOF", closeOK |-> b, req |-> NoReq] : b \in BOOLEAN}
    \cup {[kind |-> "error", closeOK |-> FALSE, req |-> NoReq]}
    \cup {[kind |-> "chunk", closeOK |-> FALSE,
           req |-> [VideoId |-> id, Data |-> Slice(file, sent, sent + k), Sequence |-> q]] :
            id \in IF call.chunkCount < MaxChunks THEN VideoIds \cup {""} ELSE {},
            k \in 0..Min(MaxChunkLen, Len(file) - sent),
            q \in SequenceLabels}

\* The events of a caller that numbers its chunks 1, 2, ... as it sends
\* them, as uploadVideo does.
InOrder(call, evs) ==
    {e \in evs : e.kind = "chunk" => e.req.Sequence = call.chunkCount + 1}

\* The stream interceptor, then the handler's entry.
StartUpload(u, ctx) ==
    /\ up[u].pc = "idle"
    /\ LET r == StreamInterceptor(UploadVideoMethod, ctx, secret, now)
       IN  up' = [up EXCEPT ![u] =
                    IF r.handler
                    THEN [@ EXCEPT !.pc = "recv", !.handler = TRUE, !.ctx = r.ctx]
                    ELSE [ReturnUpload(@, r.code, r.msg) EXCEPT !.ctx = r.ctx]]
    /\ UNCHANGED <<videos, down, now, client, commits, lookupVer, failedSend, writes, authVars, lockVars>>

\* The handler receives one message, end-of-stream or an error.  The caller's
\* side of the stream is recorded in client while the call runs: the id of
\* its first chunk, the bytes and the number of chunks sent, what the last
\* receive returned, and whether some chunk's sequence label was not its
\* position in the stream.  An upload commits when its caller, having sent a
\* first chunk under an id, sees the stream reach end-of-stream, and what it
\* commits is all the caller sent.  When the call ends the record is dropped,
\* except for what the last receive returned ("EOFNoReply" for an
\* end-of-stream of a named stream whose response SendAndClose could not
\* deliver), the note that a chunk was sent under a second id, and, after a
\* receive error, the bytes sent before it.
UploadRecv(u, ev) ==
    /\ up[u].pc = "recv"
    /\ LET r == UploadStep(up[u], videos, now, ev)
           order == IF ev.kind = "chunk" /\ ev.req.Sequence # client[u].count + 1
                    THEN "relabelled" ELSE client[u].order
       IN  /\ up' = [up EXCEPT ![u] = r.call]
           /\ videos' = r.videos
           /\ client' = [client EXCEPT ![u] =
                           IF ev.kind = "chunk" /\ @.id # "" /\ ev.req.VideoId # @.id
                           THEN [NoStream EXCEPT !.mismatch = TRUE, !.last = "chunk"]
                           ELSE IF ev.kind = "error"
                           THEN [NoStream EXCEPT !.bytes = client[u].bytes,
                                                 !.last = "error"]
                           ELSE IF r.call.pc = "done"
                           THEN [NoStream EXCEPT !.last =
                                    IF ev.kind = "EOF" /\ client[u].id # "" /\ ~ev.closeOK
                                    THEN "EOFNoReply" ELSE ev.kind]
                           ELSE [@ EXCEPT !.id = IF @ = "" THEN ev.req.VideoId ELSE @,
                                          !.bytes = @ \o ev.req.Data,
                                          !.count = @ + 1,
                                          !.last = "chunk",
                                          !.order = order]]
    /\ commits' = IF ev.kind = "EOF" /\ client[u].id # ""
                  THEN [commits EXCEPT ![client[u].id] =
                           Append(@, [by |-> u, bytes |-> client[u].bytes,
                                      order |-> client[u].order,
                                      stored |->
                                         LET v == UploadStep(up[u], videos, now, ev).videos
                                         IN  IF client[u].id \in DOMAIN v
                                             THEN <<v[client[u].id]>> ELSE <<>>])]
                  ELSE commits
    /\ writes' = [writes EXCEPT ![u] =
                     @ + Cardinality(DOMAIN UploadStep(up[u], NoVideos, now, ev).videos)]
    /\ UNCHANGED <<down, now, lookupVer, failedSend, authVars, lockVars>>

(***************************************************************************)
(* DownloadVideo (src/media/func.go:136-244).                              *)
(***************************************************************************)
\* Lines 151-153: videoInfo, exists := s.videos[req.VideoId] under s.mu.
\* The result is the empty sequence when the key is absent.
LookupVideo(vids, id) == IF id \in DOMAIN vids THEN <<vids[id]>> ELSE <<>>

\* Line 180.
TotalChunks(n) == (n + chunkSize - 1) \div chunkSize

\* Lines 191-194.
ChunkEnd(i, n) == IF i + chunkSize > n THEN n ELSE i + chunkSize

\* Fault variant of ChunkSequence: numbering starts at 0.
ChunkSequenceFromZero(i) == i \div chunkSize

\* Line 196.
ChunkSequence(i) == i \div chunkSize + 1

\* Fault variant of ChunkMetadata: every chunk carries the metadata.
ChunkMetadataAlways(chunkSequence, info) == <<info.Metadata>>

\* Lines 205-208: the metadata rides on the chunk numbered 1 only.
ChunkMetadata(chunkSequence, info) ==
    IF chunkSequence = 1 THEN <<info.Metadata>> ELSE <<>>

\* Lines 199-208: the response built for offset i.
\* Fault variant of DownloadResponse: each chunk is cut from the entry the
\* store holds when the chunk is sent.
DownloadResponseRereads(call, i) ==
    LET info == IF call.req \in DOMAIN videos THEN videos[call.req]
                ELSE call.videoInfo[1]
    IN  [VideoId |-> call.req,
         Data |-> Slice(info.Data, i, ChunkEnd(i, Len(info.Data))),
         Sequence |-> ChunkSequence(i),
         Metadata |-> ChunkMetadata(ChunkSequence(i), info)]

DownloadResponse(call, i) ==
    LET info == call.videoInfo[1]
    IN  [VideoId |-> call.req,
         Data |-> Slice(info.Data, i, ChunkEnd(i, Len(info.Data))),
         Sequence |-> ChunkSequence(i),
         Metadata |-> ChunkMetadata(ChunkSequence(i), info)]

\* Fault variant of DownloadBegin: an empty payload is reported as NotFound.
DownloadBeginEmptyNotFound(call, vids) ==
    LET found == LookupVideo(vids, call.req)
    IN  [videos |-> vids,
         call |->
            IF found = <<>> \/ Len(found[1].Data) = 0
            THEN Return(call, "NotFound", "video not found")
            ELSE [call EXCEPT !.pc = "send", !.videoInfo = found, !.i = 0]]

\* Fault variant of DownloadBegin: a missing video is reported as
\* FailedPrecondition.
DownloadBeginMissingPrecondition(call, vids) ==
    LET found == LookupVideo(vids, call.req)
    IN  [videos |-> vids,
         call |->
            IF found = <<>> \/ Len(found[1].Data) = 0
            THEN Return(call, "FailedPrecondition",
                        "no download source available for this video")
            ELSE [call EXCEPT !.pc = "send", !.videoInfo = found, !.i = 0]]

\* Fault variant of DownloadBegin: the entry is removed once it is read.
DownloadBeginConsumes(call, vids) ==
    LET found == LookupVideo(vids, call.req)
    IN  [videos |-> [k \in DOMAIN vids \ {call.req} |-> vids[k]],
         call |->
            IF found = <<>>
            THEN Return(call, "NotFound", "video not found")
            ELSE IF Len(found[1].Data) = 0
            THEN Return([call EXCEPT !.videoInfo = found], "FailedPrecondition",
                        "no download source available for this video")
            ELSE [call EXCEPT !.pc = "send", !.videoInfo = found, !.i = 0]]

\* Lines 151-175: the lookup and the two guards before the send loop.
DownloadBegin(call, vids) ==
    LET found == LookupVideo(vids, call.req)
    IN  [videos |-> vids,
         call |->
            IF found = <<>>
            THEN Return(call, "NotFound", "video not found")
            ELSE IF Len(found[1].Data) = 0
            THEN Return([call EXCEPT !.videoInfo = found], "FailedPrecondition",
                        "no download source available for this video")
            ELSE [call EXCEPT !.pc = "send", !.videoInfo = found, !.i = 0]]

\* Fault variant of DownloadSendStep: a failed send is tried again.
DownloadSendStepRetries(call, sendOK) ==
    LET n == Len(call.videoInfo[1].Data)
        response == DownloadResponse(call, call.i)
        next == call.i + chunkSize
    IN  IF ~sendOK
        THEN call
        ELSE LET c == [call EXCEPT !.sent = Append(@, response),
                                   !.chunksSent = @ + 1,
                                   !.i = next]
             IN  IF next < n THEN c ELSE Return(c, "OK", "")

\* Lines 190-243: one turn of the send loop at offset call.i; sendOK is
\* whether stream.Send delivered the response.  The loop ends, and the
\* handler returns nil, when the next offset reaches the payload's length.
DownloadSendStep(call, sendOK) ==
    LET n == Len(call.videoInfo[1].Data)
        response == DownloadResponse(call, call.i)
        next == call.i + chunkSize
    IN  IF ~sendOK
        THEN Return(call, "Internal", "failed to send chunk")
        ELSE LET c == [call EXCEPT !.sent = Append(@, response),
                                   !.chunksSent = @ + 1,
                                   !.i = next]
             IN  IF next < n THEN c ELSE Return(c, "OK", "")

\* The stream interceptor, then the handler's entry.
StartDownload(d, ctx, id) ==
    /\ down[d].pc = "idle"
    /\ LET r == StreamInterceptor(DownloadVideoMethod, ctx, secret, now)
       IN  down' = [down EXCEPT ![d] =
                      IF r.handler
                      THEN [@ EXCEPT !.pc = "lookup", !.handler = TRUE,
                                     !.ctx = r.ctx, !.req = id]
                      ELSE [Return(@, r.code, r.msg) EXCEPT !.ctx = r.ctx, !.req = id]]
    /\ UNCHANGED <<videos, up, now, client, commits, lookupVer, failedSend, writes, authVars, lockVars>>

\* The handler reads the map and either fails or enters the send loop.
DownloadLookup(d) ==
    /\ down[d].pc = "lookup"
    /\ LET r == DownloadBegin(down[d], videos)
       IN  down' = [down EXCEPT ![d] = r.call] /\ videos' = r.videos
    /\ lookupVer' = [lookupVer EXCEPT ![d] = Len(commits[down[d].req])]
    /\ UNCHANGED <<up, now, client, commits, failedSend, writes, authVars, lockVars>>

\* The handler sends the next chunk, or the send fails.
DownloadSend(d, sendOK) ==
    /\ down[d].pc = "send"
    /\ down' = [down EXCEPT ![d] = DownloadSendStep(@, sendOK)]
    /\ failedSend' = IF sendOK THEN failedSend
                     ELSE [failedSend EXCEPT ![d] = Len(down[d].sent) + 1]
    /\ UNCHANGED <<videos, up, now, client, commits, lookupVer, writes, authVars, lockVars>>

(***************************************************************************)
(* The auth service (src/auth/func.go).  Each handler runs under           *)
(* authServer.mu from its first to its last statement, and the unary       *)
(* interceptor in front of it touches no shared state, so one unary call   *)
(* is one step.                                                            *)
(***************************************************************************)
\* bcrypt.GenerateFromPassword / bcrypt.CompareHashAndPassword: the hash is
\* an opaque value that matches the password it was made from and no other.
HashPassword(password) == [bcrypt |-> password]

CompareHashAndPassword(hash, password) == hash.bcrypt = password

\* s.users[req.Username] = user{...}
StoreUser(us, username, u) ==
    [k \in DOMAIN us \cup {username} |-> IF k = username THEN u ELSE us[k]]

Replied(method, ctx, code, msg, body) ==
    [method |-> method, handler |-> TRUE, ctx |-> ctx,
     code |-> code, msg |-> msg, body |-> body]

\* The interceptor returned the error itself; the handler was not called.
Intercepted(method, r) ==
    [method |-> method, handler |-> FALSE, ctx |-> r.ctx,
     code |-> r.code, msg |-> r.msg, body |-> <<>>]

\* Fault variant of SignUpHandler: only the username is required.
SignUpHandlerAllowsEmptyPassword(us, ctx, req) ==
    IF req.Username = ""
    THEN [users |-> us,
          reply |-> Replied("SignUp", ctx, "InvalidArgument",
                            "username and password are required", <<>>)]
    ELSE LET userID == UserID(Cardinality(DOMAIN us) + 1)
             u == [ID |-> userID, Username |-> req.Username,
                   Password |-> HashPassword(req.Password)]
         IN  [users |-> StoreUser(us, req.Username, u),
              reply |-> Replied("SignUp", ctx, "OK", "", <<[UserId |-> userID]>>)]

\* Lines 18-39.
SignUpHandler(us, ctx, req) ==
    IF req.Username = "" \/ req.Password = ""
    THEN [users |-> us,
          reply |-> Replied("SignUp", ctx, "InvalidArgument",
                            "username and password are required", <<>>)]
    ELSE LET userID == UserID(Cardinality(DOMAIN us) + 1)
             u == [ID |-> userID, Username |-> req.Username,
                   Password |-> HashPassword(req.Password)]
         IN  [users |-> StoreUser(us, req.Username, u),
              reply |-> Replied("SignUp", ctx, "OK", "", <<[UserId |-> userID]>>)]

\* Fault variant of SignInHandler: a username with no record is answered
\* NotFound.
SignInHandlerTellsAbsent(us, ctx, req, t) ==
    IF req.Username \notin DOMAIN us
    THEN Replied("SignIn", ctx, "NotFound", "user not found", <<>>)
    ELSE IF ~CompareHashAndPassword(us[req.Username].Password, req.Password)
    THEN Replied("SignIn", ctx, "Unauthenticated", "invalid credentials", <<>>)
    ELSE Replied("SignIn", ctx, "OK", "",
                 <<[Token |-> IssueToken(us[req.Username], secret, t)]>>)

\* Lines 41-66.
SignInHandler(us, ctx, req, t) ==
    IF \/ req.Username \notin DOMAIN us
       \/ ~CompareHashAndPassword(us[req.Username].Password, req.Password)
    THEN Replied("SignIn", ctx, "Unauthenticated", "invalid credentials", <<>>)
    ELSE Replied("SignIn", ctx, "OK", "",
                 <<[Token |-> IssueToken(us[req.Username], secret, t)]>>)

\* Lines 68-118.  The handler parses the authorization header again and then
\* looks the token's subject up in the user map.
GetUserProfileHandler(us, ctx, t) ==
    LET a == Authenticate(ctx, secret, t)
    IN  IF ~a.handler
        THEN Replied("GetUserProfile", ctx, a.code, a.msg, <<>>)
        ELSE LET claims == TrimPrefix(ctx.md["authorization"][1]).token.claims
             IN  IF \/ claims.sub \notin DOMAIN us
                    \/ us[claims.sub].ID # claims.user_id
                 THEN Replied("GetUserProfile", ctx, "Unauthenticated",
                              "user not found", <<>>)
                 ELSE Replied("GetUserProfile", ctx, "OK", "",
                              <<[UserId |-> claims.user_id, Username |-> claims.sub]>>)

SignUp(ctx, req) ==
    /\ LET r == UnaryInterceptor(SignUpMethod, ctx, secret, now)
           h == SignUpHandler(users, r.ctx, req)
       IN  IF r.handler
           THEN /\ users' = h.users
                /\ reply' = h.reply
                /\ created' = IF h.reply.code = "OK" /\ req.Username \notin DOMAIN created
                              THEN StoreUser(created, req.Username, h.users[req.Username])
                              ELSE created
                /\ returned' = IF h.reply.code = "OK"
                               THEN returned \cup {<<req.Username, h.reply.body[1].UserId>>}
                               ELSE returned
           ELSE /\ users' = users
                /\ reply' = Intercepted("SignUp", r)
                /\ UNCHANGED <<created, returned>>
    /\ dup' = (req.Username # "" /\ req.Password # "" /\ req.Username \in DOMAIN users)
    /\ UNCHANGED <<issued, now, mediaVars, lockVars>>

\* A caller keeps the token it is given while it holds fewer than MaxTokens.
SignIn(ctx, req) ==
    /\ LET r == UnaryInterceptor(SignInMethod, ctx, secret, now)
           h == SignInHandler(users, r.ctx, req, now)
       IN  /\ reply' = IF r.handler THEN h ELSE Intercepted("SignIn", r)
           /\ issued' = IF r.handler /\ h.code = "OK" /\ Cardinality(issued) < MaxTokens
                        THEN issued \cup {h.body[1].Token}
                        ELSE issued
    /\ dup' = FALSE
    /\ UNCHANGED <<users, created, returned, now, mediaVars, lockVars>>

GetUserProfile(ctx) ==
    /\ LET r == UnaryInterceptor(GetUserProfileMethod, ctx, secret, now)
       IN  reply' = IF r.handler
                    THEN GetUserProfileHandler(users, r.ctx, now)
                    ELSE Intercepted("GetUserProfile", r)
    /\ dup' = FALSE
    /\ UNCHANGED <<users, issued, created, returned, now, mediaVars, lockVars>>

(***************************************************************************)
(* The media service under concurrent calls.                               *)
(***************************************************************************)
\* A registered user and the tokens a caller may present for it: the one
\* SignIn issues at time 0, one signed with another key, one with alg none,
\* one that expired before time 0, and one that is not a JWT.
SampleUser == [ID |-> UserID(1), Username |-> "alice", Password |-> <<>>]

GoodToken == IssueToken(SampleUser, secret, 0)

BadTokens ==
    {IssueToken(SampleUser, "other-key", 0),
     [GoodToken EXCEPT !.alg = "none", !.key = ""],
     IssueToken(SampleUser, secret, 0 - TokenTTL - 1),
     [GoodToken EXCEPT !.form = "garbage"]}

\* The identity headers a caller may add to an upload.
IdentityHints ==
    {NoHeaders,
     [k \in {"user-id", "user-name"} |->
        IF k = "user-id" THEN <<"user_9">> ELSE <<"mallory">>]}

WithAuth(hints, values) ==
    [k \in DOMAIN hints \cup {"authorization"} |->
        IF k = "authorization" THEN values ELSE hints[k]]

\* The contexts a streaming call may arrive with, given the tokens callers hold.
StreamContexts(tokens) ==
    {NoCtx}
    \cup {[NoCtx EXCEPT !.ok = TRUE, !.md = h] : h \in IdentityHints}
    \cup {[NoCtx EXCEPT !.ok = TRUE, !.md = WithAuth(NoHeaders, <<>>)]}
    \cup {[NoCtx EXCEPT !.ok = TRUE,
                        !.md = WithAuth(h, <<[scheme |-> s, token |-> tok]>>)] :
            h \in IdentityHints, s \in {"Bearer ", "", "Basic "}, tok \in tokens}

\* A context whose authorization header is "Bearer " followed by tok.
BearerCtx(hints, tok) ==
    [NoCtx EXCEPT !.ok = TRUE,
                  !.md = WithAuth(hints, <<[scheme |-> "Bearer ", token |-> tok]>>)]

\* The contexts the calls of the media specification arrive with: no
\* authorization header, a token that does not verify, or the good token
\* with or without identity headers.
UploadContexts ==
    {[NoCtx EXCEPT !.ok = TRUE], BearerCtx(NoHeaders, IssueToken(SampleUser, "other-key", 0))}
    \cup {BearerCtx(h, GoodToken) : h \in IdentityHints}

DownloadContexts ==
    {[NoCtx EXCEPT !.ok = TRUE], BearerCtx(NoHeaders, GoodToken)}

\* Two concurrent uploads, whose callers number their chunks in order, and
\* one download.
Next ==
    \/ \E u \in UploadCalls, ctx \in UploadContexts : StartUpload(u, ctx)
    \/ \E u \in UploadCalls :
          \E ev \in InOrder(up[u], RecvEvents(up[u], File(u), Len(client[u].bytes))) :
             UploadRecv(u, ev)
    \/ \E ctx \in DownloadContexts, id \in VideoIds : StartDownload("d1", ctx, id)
    \/ DownloadLookup("d1")
    \/ \E sendOK \in BOOLEAN : DownloadSend("d1", sendOK)

Spec == Init /\ [][Next]_vars

(***************************************************************************)
(* The two handlers statement by statement around s.mu, a sync.RWMutex:    *)
(* Lock waits until no one holds the mutex, RLock until no writer does.    *)
(***************************************************************************)
\* Line 60: s.mu.Lock() can return.
CanLock(m) == m.writer = "" /\ m.readers = {}

\* Fault variant of CanRLock: RLock never waits.
CanRLockAlways(m) == TRUE

\* Line 151: s.mu.RLock() can return.
CanRLock(m) == m.writer = ""

\* Lines 31-59: Recv returned io.EOF, an id is established, and the owner
\* and the metadata are made; the call reaches s.mu.Lock().
UploadEOFSeen(u) ==
    /\ up[u].pc = "recv"
    /\ up[u].videoID # ""
    /\ up' = [up EXCEPT ![u].pc = "lock"]
    /\ UNCHANGED <<videos, down, now, client, commits, lookupVer, failedSend, writes,
                   authVars, lockVars>>

\* Line 60.
UploadLock(u) ==
    /\ up[u].pc = "lock"
    /\ CanLock(mu)
    /\ mu' = [mu EXCEPT !.writer = u]
    /\ up' = [up EXCEPT ![u].pc = "store"]
    /\ UNCHANGED <<videos, down, now, client, commits, lookupVer, failedSend, writes,
                   authVars, amu, su>>

\* Lines 61-64: the map assignment.
UploadStore(u) ==
    /\ up[u].pc = "store"
    /\ videos' = UploadEOF(up[u], videos, now, TRUE).videos
    /\ up' = [up EXCEPT ![u].pc = "unlock"]
    /\ writes' = [writes EXCEPT ![u] = @ + 1]
    /\ commits' = [commits EXCEPT ![up[u].videoID] =
                      Append(@, [by |-> u, bytes |-> client[u].bytes,
                                 order |-> client[u].order,
                                 stored |-> <<videos'[up[u].videoID]>>])]
    /\ UNCHANGED <<down, now, client, lookupVer, failedSend, authVars, lockVars>>

\* Line 65.
UploadUnlock(u) ==
    /\ up[u].pc = "unlock"
    /\ mu' = [mu EXCEPT !.writer = IF @ = u THEN "" ELSE @]
    /\ up' = [up EXCEPT ![u].pc = "respond"]
    /\ UNCHANGED <<videos, down, now, client, commits, lookupVer, failedSend, writes,
                   authVars, amu, su>>

\* Lines 66-84: stream.SendAndClose and return.
UploadRespond(u, closeOK) ==
    /\ up[u].pc = "respond"
    /\ up' = [up EXCEPT ![u] = UploadEOF(up[u], videos, now, closeOK).call]
    /\ client' = [client EXCEPT ![u] =
                     [NoStream EXCEPT !.last = IF closeOK THEN "EOF" ELSE "EOFNoReply"]]
    /\ UNCHANGED <<videos, down, now, commits, lookupVer, failedSend, writes,
                   authVars, lockVars>>

\* Line 151.
DownloadRLock(d) ==
    /\ down[d].pc = "lookup"
    /\ CanRLock(mu)
    /\ mu' = [mu EXCEPT !.readers = @ \cup {d}]
    /\ down' = [down EXCEPT ![d].pc = "read"]
    /\ UNCHANGED <<videos, up, now, client, commits, lookupVer, failedSend, writes,
                   authVars, amu, su>>

\* Line 152: the map lookup.
DownloadRead(d) ==
    /\ down[d].pc = "read"
    /\ down' = [down EXCEPT ![d] = [@ EXCEPT !.pc = "runlock",
                                             !.videoInfo = LookupVideo(videos, down[d].req)]]
    /\ lookupVer' = [lookupVer EXCEPT ![d] = Len(commits[down[d].req])]
    /\ UNCHANGED <<videos, up, now, client, commits, failedSend, writes,
                   authVars, lockVars>>

\* Line 153.
DownloadRUnlock(d) ==
    /\ down[d].pc = "runlock"
    /\ mu' = [mu EXCEPT !.readers = @ \ {d}]
    /\ down' = [down EXCEPT ![d].pc = "found"]
    /\ UNCHANGED <<videos, up, now, client, commits, lookupVer, failedSend, writes,
                   authVars, amu, su>>

\* Lines 155-188: the checks on what the lookup returned.
DownloadCheck(d) ==
    /\ down[d].pc = "found"
    /\ LET held == IF down[d].videoInfo = <<>> THEN NoVideos
                   ELSE [k \in {down[d].req} |-> down[d].videoInfo[1]]
       IN  down' = [down EXCEPT ![d] = DownloadBegin(@, held).call]
    /\ UNCHANGED <<videos, up, now, client, commits, lookupVer, failedSend, writes,
                   authVars, lockVars>>

\* A chunk, a receive error, or an end-of-stream before any id: none of
\* them comes near the lock.
BeforeCommit(call, evs) ==
    {e \in evs : /\ e.kind = "EOF" => call.videoID = "" /\ e.closeOK
                 /\ e.kind = "chunk" => e.req.VideoId = "v1" /\ Len(e.req.Data) > 0}

NextLocks ==
    \/ \E u \in UploadCalls : StartUpload(u, BearerCtx(NoHeaders, GoodToken))
    \/ \E u \in UploadCalls :
          \E ev \in BeforeCommit(up[u], InOrder(up[u],
                        RecvEvents(up[u], File(u), Len(client[u].bytes)))) :
             UploadRecv(u, ev)
    \/ \E u \in UploadCalls : UploadEOFSeen(u)
    \/ \E u \in UploadCalls : UploadLock(u)
    \/ \E u \in UploadCalls : UploadStore(u)
    \/ \E u \in UploadCalls : UploadUnlock(u)
    \/ \E u \in UploadCalls, closeOK \in BOOLEAN : UploadRespond(u, closeOK)
    \/ \E d \in DownloadCalls : StartDownload(d, BearerCtx(NoHeaders, GoodToken), "v1")
    \/ \E d \in DownloadCalls : DownloadRLock(d)
    \/ \E d \in DownloadCalls : DownloadRead(d)
    \/ \E d \in DownloadCalls : DownloadRUnlock(d)
    \/ \E d \in DownloadCalls : DownloadCheck(d)
    \/ \E d \in DownloadCalls : DownloadSend(d, TRUE)

SpecLocks == Init /\ [][NextLocks]_vars

\* The uploads alone.  Each call's handler goroutine keeps running: a Recv
\* that can return does return, and the handler then acts on what it got.
\* A stream delivers at most MaxChunks chunks before its end or its error.
NextUploads ==
    \/ \E u \in UploadCalls, ctx \in UploadContexts : StartUpload(u, ctx)
    \/ \E u \in UploadCalls :
          \E ev \in InOrder(up[u], RecvEvents(up[u], File(u), Len(client[u].bytes))) :
             UploadRecv(u, ev)

SpecUploads ==
    /\ Init
    /\ [][NextUploads]_vars
    /\ \A u \in UploadCalls :
          WF_vars(\E ev \in InOrder(up[u], RecvEvents(up[u], File(u), Len(client[u].bytes))) :
                     UploadRecv(u, ev))

\* One upload, numbered in order, and two concurrent downloads.
NextReaders ==
    \/ \E ctx \in UploadContexts : StartUpload("u1", ctx)
    \/ \E ev \in InOrder(up["u1"], RecvEvents(up["u1"], File("u1"),
                                               Len(client["u1"].bytes))) :
          UploadRecv("u1", ev)
    \/ \E d \in DownloadCalls, ctx \in DownloadContexts, id \in VideoIds :
          StartDownload(d, ctx, id)
    \/ \E d \in DownloadCalls : DownloadLookup(d)
    \/ \E d \in DownloadCalls, sendOK \in BOOLEAN : DownloadSend(d, sendOK)

SpecReaders == Init /\ [][NextReaders]_vars

\* One upload whose caller labels its chunks any way it likes: in order,
\* out of order, with a label twice, or with labels left out.
NextLabels ==
    \/ \E ctx \in UploadContexts : StartUpload("u1", ctx)
    \/ \E ev \in RecvEvents(up["u1"], File("u1"), Len(client["u1"].bytes)) :
          UploadRecv("u1", ev)

SpecLabels == Init /\ [][NextLabels]_vars

(***************************************************************************)
(* The interceptors in front of every method: sign-up, sign-in and         *)
(* profile calls, and the start of an upload and of a download, with every *)
(* kind of context a caller can present.                                   *)
(***************************************************************************)
\* The tokens a caller can put in a header: the ones SignIn gave out and
\* the bad ones.
Presentable == issued \cup BadTokens

\* The contexts a call may arrive with: no metadata, no authorization
\* header, an empty one, or one token under some scheme.
CallContexts(tokens) == {c \in StreamContexts(tokens) : "user-id" \notin DOMAIN c.md}

\* The same with the token, when there is one, after "Bearer ".
BearerContexts(tokens) ==
    {c \in CallContexts(tokens) :
        "authorization" \in DOMAIN c.md /\ Len(c.md["authorization"]) > 0
            => c.md["authorization"][1].scheme = "Bearer "}

\* Sign-up and sign-in are called with no metadata, with no authorization
\* header, or with a header that does not verify.
PublicContexts ==
    {NoCtx, [NoCtx EXCEPT !.ok = TRUE],
     BearerCtx(NoHeaders, [GoodToken EXCEPT !.form = "garbage"])}

Credentials == [Username : {"", "alice"}, Password : {"", "pw"}]

NextGate ==
    \/ \E ctx \in PublicContexts, req \in Credentials : SignUp(ctx, req)
    \/ \E ctx \in PublicContexts, req \in Credentials : SignIn(ctx, req)
    \/ \E ctx \in CallContexts(Presentable) : GetUserProfile(ctx)
    \/ \E ctx \in CallContexts(Presentable) : StartUpload("u1", ctx)
    \/ \E ctx \in BearerContexts(Presentable) : StartDownload("d1", ctx, "v1")

SpecGate == Init /\ [][NextGate]_vars

(***************************************************************************)
(* The auth service with two usernames and two passwords: any sequence of  *)
(* sign-ups (first or repeated), sign-ins (right or wrong password) and    *)
(* profile calls with a token a caller holds or with one that does not     *)
(* verify.                                                                 *)
(***************************************************************************)
\* A streaming call to fullMethod goes through the stream interceptor, which
\* either hands it to the method's handler or ends it with a status; what
\* the handler then does is not followed.
StreamCall(fullMethod, ctx) ==
    /\ LET r == StreamInterceptor(fullMethod, ctx, secret, now)
       IN  reply' = [method |-> "stream", handler |-> r.handler, ctx |-> r.ctx,
                     code |-> r.code, msg |-> r.msg, body |-> <<fullMethod>>]
    /\ dup' = FALSE
    /\ UNCHANGED <<users, issued, created, returned, now, mediaVars, lockVars>>

(***************************************************************************)
(* SignUp statement by statement, for calls that run at the same time.     *)
(* Each gRPC call runs in a goroutine of its own; s.mu is a sync.RWMutex   *)
(* that SignUp takes with Lock and releases, by defer, when it returns.    *)
(***************************************************************************)
\* The username of each concurrent SignUp call: all different.
NameOf(c) == CASE c = "s1" -> "alice" [] c = "s2" -> "bob" [] c = "s3" -> "carol"

\* Fault variant of MutexFree: Lock never waits.
MutexFreeAlways(m) == TRUE

\* s.mu.Lock() returns only when no one holds the mutex.
MutexFree(m) == m = ""

\* The call arrives and reaches s.mu.Lock().
SignUpCall(c, req) ==
    /\ su[c].pc = "idle"
    /\ su' = [su EXCEPT ![c] = [@ EXCEPT !.pc = "lock", !.req = req]]
    /\ UNCHANGED <<now, amu, mu, users, issued, reply, created, returned, dup, mediaVars>>

\* Line 19: s.mu.Lock().
SignUpLock(c) ==
    /\ su[c].pc = "lock"
    /\ MutexFree(amu)
    /\ amu' = c
    /\ su' = [su EXCEPT ![c].pc = "id"]
    /\ UNCHANGED <<now, mu, users, issued, reply, created, returned, dup, mediaVars>>

\* Lines 22-31: the two fields are checked, the password is hashed and the
\* id is made from the number of records the map holds now.
SignUpComputeID(c) ==
    /\ su[c].pc = "id"
    /\ su' = [su EXCEPT ![c] =
                IF su[c].req.Username = "" \/ su[c].req.Password = ""
                THEN [@ EXCEPT !.pc = "unlock", !.code = "InvalidArgument"]
                ELSE [@ EXCEPT !.pc = "store",
                               !.userID = UserID(Cardinality(DOMAIN users) + 1)]]
    /\ UNCHANGED <<now, amu, mu, users, issued, reply, created, returned, dup, mediaVars>>

\* Lines 32-36: the record is assigned under the username.
SignUpStore(c) ==
    /\ su[c].pc = "store"
    /\ users' = StoreUser(users, su[c].req.Username,
                          [ID |-> su[c].userID, Username |-> su[c].req.Username,
                           Password |-> HashPassword(su[c].req.Password)])
    /\ su' = [su EXCEPT ![c] = [@ EXCEPT !.pc = "unlock", !.code = "OK",
                                         !.resp = <<[UserId |-> su[c].userID]>>]]
    /\ UNCHANGED <<now, amu, mu, issued, reply, created, returned, dup, mediaVars>>

\* Line 38 and the deferred s.mu.Unlock(): the call returns.
SignUpReturn(c) ==
    /\ su[c].pc = "unlock"
    /\ amu' = IF amu = c THEN "" ELSE amu
    /\ su' = [su EXCEPT ![c].pc = "done"]
    /\ UNCHANGED <<now, mu, users, issued, reply, created, returned, dup, mediaVars>>

NextSignUps ==
    \/ \E c \in SignUpCalls, p \in {"pw", "pw2"} :
          SignUpCall(c, [Username |-> NameOf(c), Password |-> p])
    \/ \E c \in SignUpCalls : SignUpLock(c)
    \/ \E c \in SignUpCalls : SignUpComputeID(c)
    \/ \E c \in SignUpCalls : SignUpStore(c)
    \/ \E c \in SignUpCalls : SignUpReturn(c)

SpecSignUps == Init /\ [][NextSignUps]_vars

AuthCredentials == [Username : {"", "alice", "bob"}, Password : {"", "pw", "pw2"}]

\* A context with metadata and no authorization header.
PlainCtx == [NoCtx EXCEPT !.ok = TRUE]

NextAuth ==
    \/ \E req \in AuthCredentials : SignUp(PlainCtx, req)
    \/ \E req \in AuthCredentials : SignIn(PlainCtx, req)
    \/ \E tok \in issued \cup {IssueToken(SampleUser, "other-key", 0)} :
          GetUserProfile(BearerCtx(NoHeaders, tok))

SpecAuth == Init /\ [][NextAuth]_vars

\* The full method names a streaming call may carry: the five of the two
\* services, one more under each service's prefix, and one of neither.
CallableMethods ==
    UnaryMethods \cup StreamMethods \cup
    {[service |-> "auth.AuthService", method |-> "Refresh"],
     [service |-> "media.MediaService", method |-> "ListVideos"],
     [service |-> "grpc.health.v1.Health", method |-> "Watch"]}

NextStreams ==
    \/ \E req \in Credentials : SignUp(PlainCtx, req)
    \/ \E req \in Credentials : SignIn(PlainCtx, req)
    \/ \E m \in CallableMethods, ctx \in CallContexts(Presentable) : StreamCall(m, ctx)

SpecStreams == Init /\ [][NextStreams]_vars

(***************************************************************************)
(* Properties.                                                             *)
(***************************************************************************)
\* The upload whose commit a download's lookup saw: the newest one for the
\* requested id at that moment.  Defined when lookupVer[d] >= 1.
SeenCommit(d) == commits[down[d].req][lookupVer[d]]

\* ceil(n / s), written without the source's rounding trick.
CeilDiv(n, s) == IF n % s = 0 THEN n \div s ELSE n \div s + 1

\* A download that ran to its end with no send failure.
Completed(d) == down[d].pc = "done" /\ down[d].handler /\ down[d].code # "Internal"

\* C1: the store has an entry for an id only if an upload for that id
\* reached end-of-stream with no error before it, the entry's payload is
\* what that upload's caller sent in full, and whatever a download has sent
\* is the beginning of such a committed payload; so the bytes of an upload
\* still receiving, or aborted, are in no entry and in no download.
C1_VisibleOnlyAfterCommit ==
    /\ \A id \in DOMAIN videos :
          /\ id \in VideoIds
          /\ Len(commits[id]) > 0
          /\ videos[id].Data = Last(commits[id]).bytes
    /\ \A d \in DownloadCalls :
          down[d].sent # <<>> =>
             /\ lookupVer[d] >= 1
             /\ IsPrefix(ConcatData(down[d].sent), SeenCommit(d).bytes)

\* One upload has committed, another is still receiving under an id with
\* no entry and holds bytes, and a download has sent a chunk.
C1_Witness ==
    /\ videos # NoVideos
    /\ \E u \in UploadCalls :
          /\ up[u].pc = "recv"
          /\ Len(up[u].videoData) > 0
          /\ up[u].videoID \notin DOMAIN videos
    /\ down["d1"].sent # <<>>

\* C2: a download that looked the id up after an upload of B committed
\* (the newest commit for the id at the lookup) and ran to its end is never
\* NotFound, and the payloads it sent, concatenated in order, are exactly B,
\* however the uploader split B into chunks.
C2_RoundTrip ==
    \A d \in DownloadCalls :
       (Completed(d) /\ lookupVer[d] >= 1) =>
          /\ down[d].code \in {"OK", "FailedPrecondition"}
          /\ ConcatData(down[d].sent) = SeenCommit(d).bytes

\* A whole file, which takes at least two upload chunks, came back in at
\* least two download chunks.
C2_Witness ==
    /\ down["d1"].code = "OK"
    /\ Len(down["d1"].sent) >= 2
    /\ lookupVer["d1"] >= 1
    /\ SeenCommit("d1").bytes = File(SeenCommit("d1").by)
    /\ MaxChunkLen < MaxBytes

\* C3: a step in which an upload receives a chunk and goes on receiving,
\* or receives a chunk under an id other than its first chunk's, leaves the
\* store as it is; and in the second case the call is over with
\* InvalidArgument.
C3_InconsistentIdAborts ==
    [][\A u \in UploadCalls :
          (up'[u] # up[u] /\ (up'[u].pc = "recv" \/ client'[u].mismatch)) =>
             /\ videos' = videos
             /\ client'[u].mismatch =>
                   /\ up'[u].pc = "done"
                   /\ up'[u].code = "InvalidArgument"
                   /\ up'[u].resp = <<>>]_vars

\* An upload was aborted for a second id while the store holds an entry.
C3_Witness ==
    /\ videos # NoVideos
    /\ \E u \in UploadCalls :
          client[u].mismatch /\ up[u].code = "InvalidArgument"

\* C5: in what a download has sent, the chunk numbered 1 carries the
\* metadata of the video the lookup returned, which names the requested id
\* and the committed payload's size, and every other chunk carries none.
C5_MetadataOnFirstChunk ==
    \A d \in DownloadCalls :
       \A k \in 1..Len(down[d].sent) :
          LET r == down[d].sent[k]
          IN  /\ r.Sequence = 1 =>
                    /\ r.Metadata = <<down[d].videoInfo[1].Metadata>>
                    /\ r.Metadata[1].FileName = down[d].req
                    /\ r.Metadata[1].FileSize = Len(SeenCommit(d).bytes)
              /\ r.Sequence # 1 => r.Metadata = <<>>
              /\ (k = 1) = (r.Sequence = 1)

\* A download has sent a second chunk.
C5_Witness == Len(down["d1"].sent) >= 2 /\ down["d1"].code = "OK"

\* C6: a download of n > 0 committed bytes that ran to its end sent
\* ceil(n / chunkSize) chunks, the k-th numbered k, all of chunkSize bytes
\* except the last, which has the 1..chunkSize bytes that remain; a download
\* still sending has numbered its chunks the same way.
C6_DownloadChunking ==
    \A d \in DownloadCalls :
       /\ \A k \in 1..Len(down[d].sent) :
             /\ down[d].sent[k].Sequence = k
             /\ Len(down[d].sent[k].Data) \in 1..chunkSize
             /\ k < Len(down[d].sent) => Len(down[d].sent[k].Data) = chunkSize
       /\ (down[d].pc = "done" /\ down[d].code = "OK") =>
             LET n == Len(SeenCommit(d).bytes)
                 N == Len(down[d].sent)
             IN  /\ n > 0
                 /\ N = CeilDiv(n, chunkSize)
                 /\ N = TotalChunks(n)
                 /\ Len(down[d].sent[N].Data) = n - (N - 1) * chunkSize

\* A download ended after a full chunk and a shorter last one.
C6_Witness ==
    /\ down["d1"].code = "OK"
    /\ Len(down["d1"].sent) >= 2
    /\ Len(Last(down["d1"].sent).Data) < chunkSize

\* C7: a download whose lookup saw a commit of zero bytes fails with
\* FailedPrecondition and sends nothing.
C7_EmptyObjectGuard ==
    \A d \in DownloadCalls :
       (lookupVer[d] >= 1 /\ Len(SeenCommit(d).bytes) = 0) =>
          /\ down[d].pc = "done"
          /\ down[d].code = "FailedPrecondition"
          /\ down[d].sent = <<>>

\* An upload committed no bytes under an id and a download of it failed.
C7_Witness ==
    /\ lookupVer["d1"] >= 1
    /\ SeenCommit("d1").bytes = <<>>
    /\ down["d1"].code = "FailedPrecondition"

\* C8: a download whose lookup came when no upload had committed under the
\* id fails with NotFound and sends nothing.
C8_NotFound ==
    \A d \in DownloadCalls :
       lookupVer[d] = 0 =>
          /\ down[d].pc = "done"
          /\ down[d].code = "NotFound"
          /\ down[d].sent = <<>>

\* A download found nothing while one upload to the id holds bytes and is
\* still receiving and the other upload has ended with an error.
C8_Witness ==
    /\ down["d1"].code = "NotFound"
    /\ \E u \in UploadCalls :
          /\ up[u].pc = "recv"
          /\ up[u].videoID = down["d1"].req
          /\ Len(up[u].videoData) > 0
    /\ \E u \in UploadCalls : up[u].pc = "done" /\ up[u].code = "Internal"

\* C9: two downloads of one id whose lookups saw the same commit and that
\* ran to their ends finish alike and sent the same chunks, payloads and
\* metadata; and no step of a download changes the store.
C9_SameVersion ==
    \A d \in DownloadCalls, e \in DownloadCalls :
       (/\ Completed(d) /\ Completed(e)
        /\ down[d].req = down[e].req
        /\ lookupVer[d] = lookupVer[e]
        /\ lookupVer[d] >= 1) =>
          /\ down[d].code = down[e].code
          /\ down[d].sent = down[e].sent

C9_ReadIsIdempotent ==
    /\ []C9_SameVersion
    /\ [][(\E d \in DownloadCalls : down'[d] # down[d]) => videos' = videos]_vars

\* Two downloads of the same committed video both ended after two chunks.
C9_Witness ==
    /\ \A d \in DownloadCalls : down[d].code = "OK" /\ Len(down[d].sent) >= 2
    /\ down["d1"].req = down["d2"].req

(***************************************************************************)
(* Properties of the interceptors.                                         *)
(***************************************************************************)
\* The context presents a token that SignIn gave out, bare or after
\* "Bearer ".
Genuine(ctx) ==
    /\ ctx.ok
    /\ "authorization" \in DOMAIN ctx.md
    /\ Len(ctx.md["authorization"]) > 0
    /\ ctx.md["authorization"][1].scheme \in {"Bearer ", ""}
    /\ ctx.md["authorization"][1].token \in issued

\* C4: a GetUserProfile, UploadVideo or DownloadVideo call that does not
\* present a token SignIn gave out ends Unauthenticated without its handler
\* having run; SignUp and SignIn calls, which present none, reach theirs.
C4_AuthGate ==
    /\ (reply.method = "GetUserProfile" /\ ~Genuine(reply.ctx)) =>
          reply.code = "Unauthenticated" /\ ~reply.handler
    /\ (up["u1"].pc # "idle" /\ ~Genuine(up["u1"].ctx)) =>
          /\ up["u1"].pc = "done"
          /\ up["u1"].code = "Unauthenticated"
          /\ ~up["u1"].handler
    /\ (down["d1"].pc # "idle" /\ ~Genuine(down["d1"].ctx)) =>
          /\ down["d1"].pc = "done"
          /\ down["d1"].code = "Unauthenticated"
          /\ ~down["d1"].handler
    /\ reply.method \in {"SignUp", "SignIn"} => reply.handler /\ ~Genuine(reply.ctx)

\* A user signed up and in with no token; then a profile call with a token
\* that does not verify, an upload with no authorization header and a
\* download with no metadata were all turned away.
C4_Witness ==
    /\ issued # {}
    /\ reply.method = "GetUserProfile"
    /\ reply.code = "Unauthenticated"
    /\ "authorization" \in DOMAIN reply.ctx.md
    /\ reply.ctx.md["authorization"] # <<>>
    /\ up["u1"].code = "Unauthenticated"
    /\ up["u1"].ctx.ok
    /\ "authorization" \notin DOMAIN up["u1"].ctx.md
    /\ down["d1"].code = "Unauthenticated"
    /\ ~down["d1"].ctx.ok

\* The context hands the handler the identity in the token's claims: it is
\* a substituted context and the token's subject and user id are among the
\* metadata values it carries besides the authorization header.
CarriesIdentity(ctx) ==
    LET claims == ctx.md["authorization"][1].token.claims
        carried == UNION {{ctx.out[k][j] : j \in 1..Len(ctx.out[k])} : k \in DOMAIN ctx.out}
                   \cup UNION {{ctx.md[k][j] : j \in 1..Len(ctx.md[k])} :
                                  k \in DOMAIN ctx.md \ {"authorization"}}
    IN  /\ ctx.wrapped
        /\ claims.sub \in carried

\* C10: every streaming call that passed the stream interceptor's token
\* verification runs its handler with a substituted context carrying the
\* username verified from the token.
C10_StreamIdentity ==
    /\ up["u1"].handler => CarriesIdentity(up["u1"].ctx)
    /\ down["d1"].handler => CarriesIdentity(down["d1"].ctx)

(***************************************************************************)
(* Properties of the upload's commit.                                      *)
(***************************************************************************)
\* The claims of the token a call's context presents.
TokenClaims(ctx) == TrimPrefix(ctx.md["authorization"][1]).token.claims

\* The upload calls that have committed under id.
Committers(id) == {commits[id][k].by : k \in 1..Len(commits[id])}

\* The commit upload call u made under id.
CommitOf(u, id) ==
    commits[id][CHOOSE k \in 1..Len(commits[id]) : commits[id][k].by = u]

\* C11: the owner name and owner id in the metadata of every stored entry
\* are the subject and the user id of the token that the call which stored
\* it presented.
C11_OwnerFromToken ==
    \A id \in DOMAIN videos :
       LET owner == TokenClaims(up[Last(commits[id]).by].ctx)
       IN  /\ videos[id].Metadata.UploaderName = owner.sub
           /\ videos[id].Metadata.UploaderId = owner.user_id

\* C12: the response of an upload that committed names the id of its
\* caller's first chunk; its total_bytes, the file size in its metadata and
\* the number of bytes the caller sent in all its chunks are equal; and while
\* its commit is the newest under that id, the entry under that id holds a
\* payload of that length and the metadata of the response.
C12_UploadAccounting ==
    \A u \in UploadCalls :
       up[u].resp # <<>> =>
          LET r == up[u].resp[1]
          IN  /\ r.VideoId \in VideoIds
              /\ u \in Committers(r.VideoId)
              /\ r.TotalBytes = Len(CommitOf(u, r.VideoId).bytes)
              /\ r.Metadata.FileSize = r.TotalBytes
              /\ r.VideoId \in DOMAIN videos
              /\ Last(commits[r.VideoId]).by = u =>
                    /\ Len(videos[r.VideoId].Data) = r.TotalBytes
                    /\ videos[r.VideoId].Metadata = r.Metadata

\* An upload of a whole file, which takes two chunks or more, was answered
\* and its entry is in the store, next to an entry of the other upload.
C12_Witness ==
    \E u \in UploadCalls :
       /\ up[u].resp # <<>>
       /\ up[u].resp[1].TotalBytes = MaxBytes
       /\ Last(commits[up[u].resp[1].VideoId]).by = u
       /\ \E id \in DOMAIN videos : id # up[u].resp[1].VideoId
       /\ MaxChunkLen < MaxBytes

\* C13: whatever labels the chunks carry, an upload still receiving holds
\* exactly the bytes its caller sent, in the order sent, and has counted
\* every chunk; a chunk sent under the established id is accepted and
\* appended; and a stored payload is what the committing caller sent, in
\* the order sent.
C13_Accumulated ==
    /\ \A u \in UploadCalls :
          up[u].pc = "recv" =>
             /\ up[u].videoData = client[u].bytes
             /\ up[u].chunkCount = client[u].count
    /\ \A id \in VideoIds :
          Len(commits[id]) > 0 =>
             id \in DOMAIN videos /\ videos[id].Data = Last(commits[id]).bytes

C13_ArrivalOrder ==
    /\ []C13_Accumulated
    /\ [][\A u \in UploadCalls :
             (/\ up'[u] # up[u]
              /\ client[u].id # ""
              /\ client'[u].last = "chunk"
              /\ ~client'[u].mismatch) =>
                /\ up'[u].pc = "recv"
                /\ Len(up'[u].videoData) >= Len(up[u].videoData)
                /\ SubSeq(up'[u].videoData, 1, Len(up[u].videoData)) = up[u].videoData]_vars

\* A whole file was committed from two chunks or more whose labels were not
\* their positions in the stream.
C13_Witness ==
    \E id \in DOMAIN videos :
       /\ Last(commits[id]).order = "relabelled"
       /\ Last(commits[id]).bytes = File(Last(commits[id]).by)
       /\ videos[id].Data = File(Last(commits[id]).by)
       /\ MaxChunkLen < MaxBytes

\* C14: an upload whose caller has sent no chunk under an id, and whose
\* receive then returns end-of-stream or a chunk with an empty id, ends with
\* InvalidArgument and no response, and the step leaves the store as it is.
C14_NoIdentifier ==
    [][\A u \in UploadCalls :
          (/\ up[u].pc = "recv"
           /\ client[u].id = ""
           /\ up'[u].pc = "done"
           /\ client'[u].last # "error") =>
              /\ up'[u].code = "InvalidArgument"
              /\ up'[u].resp = <<>>
              /\ videos' = videos]_vars

\* One upload ended on a first chunk with an empty id and the other on an
\* end-of-stream that no chunk preceded.
C14_Witness ==
    \E u \in UploadCalls, w \in UploadCalls :
       /\ up[u].handler /\ up[u].pc = "done"
       /\ client[u].last = "chunk" /\ ~client[u].mismatch
       /\ up[u].code = "InvalidArgument"
       /\ up[w].handler /\ up[w].pc = "done"
       /\ client[w].last = "EOF"
       /\ up[w].code = "InvalidArgument"

\* C15: an upload whose receive returned an error has never committed, and
\* the step in which the error arrives ends the call with Internal and no
\* response and leaves the store as it is.
C15_NeverCommitted ==
    \A u \in UploadCalls :
       client[u].last = "error" =>
          /\ up[u].pc = "done"
          /\ up[u].code = "Internal"
          /\ \A id \in VideoIds : u \notin Committers(id)

C15_ReceiveError ==
    /\ []C15_NeverCommitted
    /\ [][\A u \in UploadCalls :
             (up'[u] # up[u] /\ client'[u].last = "error") =>
                /\ up'[u].resp = <<>>
                /\ videos' = videos]_vars

\* One upload failed on a receive error after chunks with bytes had been
\* accepted, the other before any chunk, and the store holds nothing.
C15_Witness ==
    /\ \E u \in UploadCalls :
          /\ client[u].last = "error"
          /\ Len(client[u].bytes) > 0
          /\ up[u].code = "Internal"
    /\ \E u \in UploadCalls :
          /\ client[u].last = "error"
          /\ client[u].bytes = <<>>
          /\ up[u].code = "Internal"
    /\ videos = NoVideos

(***************************************************************************)
(* Properties of a download's sends and of overwriting.                    *)
(***************************************************************************)
\* C16: a download ends with Internal exactly when one of its sends failed;
\* if the send of chunk k failed, the call is over, it has sent the chunks
\* 1 .. k-1 and no other, and no later step changes what it has sent.
C16_Stopped ==
    \A d \in DownloadCalls :
       /\ (down[d].code = "Internal") = (failedSend[d] > 0)
       /\ failedSend[d] > 0 =>
             /\ down[d].pc = "done"
             /\ Len(down[d].sent) = failedSend[d] - 1
             /\ \A j \in 1..Len(down[d].sent) : down[d].sent[j].Sequence < failedSend[d]

C16_SendFailure ==
    /\ []C16_Stopped
    /\ [][\A d \in DownloadCalls : down[d].pc = "done" => down'[d] = down[d]]_vars

\* The send of the second chunk of a download failed.
C16_Witness ==
    /\ failedSend["d1"] = 2
    /\ down["d1"].code = "Internal"
    /\ Len(down["d1"].sent) = 1

\* C17: the store changes only in a step in which an upload commits, and
\* then only under the id it commits; and what a download has sent is the
\* beginning (the whole, once it has run to its end) of the payload that
\* was the newest commit for its id at its lookup, with that commit's file
\* size and, when the committing call was answered, its metadata, whatever
\* has been uploaded or committed under the id since.
C17_PreviousVersion ==
    \A d \in DownloadCalls :
       (lookupVer[d] >= 1 /\ down[d].sent # <<>>) =>
          LET c == SeenCommit(d)
              m == down[d].sent[1].Metadata
          IN  /\ IsPrefix(ConcatData(down[d].sent), c.bytes)
              /\ Completed(d) => ConcatData(down[d].sent) = c.bytes
              /\ m # <<>>
              /\ m[1].FileSize = Len(c.bytes)
              /\ up[c.by].resp # <<>> => m[1] = up[c.by].resp[1].Metadata

C17_OverwriteTiming ==
    /\ []C17_PreviousVersion
    /\ [][\A id \in VideoIds :
             Len(commits'[id]) = Len(commits[id]) =>
                /\ (id \in DOMAIN videos') = (id \in DOMAIN videos)
                /\ id \in DOMAIN videos => videos'[id] = videos[id]]_vars

\* A download looked an id up after its first commit, a second upload
\* committed other bytes under the id, and the download ran to its end with
\* the first payload.
C17_Witness ==
    /\ lookupVer["d1"] = 1
    /\ Len(commits[down["d1"].req]) = 2
    /\ down["d1"].code = "OK"
    /\ videos[down["d1"].req].Data # ConcatData(down["d1"].sent)
    /\ ConcatData(down["d1"].sent) = commits[down["d1"].req][1].bytes

\* C18: every upload whose stream reached end-of-stream under an id has
\* committed and, unless its response could not be delivered, returned
\* success with a response; and the entry under an id is the payload of the
\* call that committed last under it, with a metadata that names the id and
\* that payload's size and is the one that call was answered with.
C18_LastCommitterWins ==
    /\ \A id \in VideoIds : \A u \in Committers(id) :
          /\ up[u].pc = "done"
          /\ client[u].last \in {"EOF", "EOFNoReply"}
          /\ client[u].last = "EOF" =>
                /\ up[u].code = "OK"
                /\ up[u].resp # <<>>
                /\ up[u].resp[1].VideoId = id
    /\ \A id \in VideoIds :
          Len(commits[id]) > 0 =>
             LET c == Last(commits[id])
             IN  /\ id \in DOMAIN videos
                 /\ videos[id].Data = c.bytes
                 /\ videos[id].Metadata.FileName = id
                 /\ videos[id].Metadata.FileSize = Len(c.bytes)
                 /\ up[c.by].resp # <<>> =>
                       videos[id].Metadata = up[c.by].resp[1].Metadata

\* Both uploads committed bytes under one id and were answered with
\* different metadata.
C18_Witness ==
    /\ \A u \in UploadCalls : up[u].code = "OK" /\ up[u].resp # <<>>
    /\ up["u1"].resp[1].VideoId = up["u2"].resp[1].VideoId
    /\ up["u1"].resp[1].Metadata # up["u2"].resp[1].Metadata
    /\ up["u1"].resp[1].Metadata.UploaderId # up["u2"].resp[1].Metadata.UploaderId
    /\ up["u1"].resp[1].TotalBytes > 0
    /\ up["u2"].resp[1].TotalBytes > 0

(***************************************************************************)
(* Properties of the credential store.                                     *)
(***************************************************************************)
\* C19: a SignUp that names a username with a record (and gives a
\* password) is answered AlreadyExists, and the record of every username is
\* still the one its first successful SignUp made: same id, same hash.
C19_DuplicateRejected ==
    /\ \A n \in DOMAIN created : n \in DOMAIN users /\ users[n] = created[n]
    /\ dup => reply.code = "AlreadyExists"

\* C20: no two records of the credential store have the same id, and no id
\* that SignUp has answered with was answered for two usernames.
C20_UniqueIds ==
    /\ \A a \in DOMAIN users, b \in DOMAIN users :
          a # b => users[a].ID # users[b].ID
    /\ \A p \in returned, q \in returned : p[2] = q[2] => p[1] = q[1]

(***************************************************************************)
(* Properties of tokens and of sign-in.                                    *)
(***************************************************************************)
\* C21: a GetUserProfile call that presents a token SignIn gave out is
\* answered with success and with the user id and username in the token's
\* claims, whatever sign-ups came after the token was issued.
C21_TokenSurvives ==
    (reply.method = "GetUserProfile" /\ Genuine(reply.ctx)) =>
       /\ reply.code = "OK"
       /\ reply.body = <<[UserId |-> TokenClaims(reply.ctx).user_id,
                          Username |-> TokenClaims(reply.ctx).sub]>>

\* What GetUserProfile answers, interceptor included, to a call that
\* presents tok after "Bearer ".
ProfileOf(tok) ==
    LET r == UnaryInterceptor(GetUserProfileMethod, BearerCtx(NoHeaders, tok), secret, now)
    IN  IF r.handler THEN GetUserProfileHandler(users, r.ctx, now)
        ELSE Intercepted("GetUserProfile", r)

\* C22: for every username u whose first SignUp, with password p, made a
\* record with id id: SignUp answered id for u; a SignIn with u and p now
\* returns a token; and GetUserProfile with that token answers u and id.
C22_SignUpSignInProfile ==
    \A u \in DOMAIN created :
       LET p == created[u].Password.bcrypt
           id == created[u].ID
           s == SignInHandler(users, PlainCtx, [Username |-> u, Password |-> p], now)
       IN  /\ <<u, id>> \in returned
           /\ s.code = "OK"
           /\ s.body # <<>>
           /\ ProfileOf(s.body[1].Token).code = "OK"
           /\ ProfileOf(s.body[1].Token).body = <<[UserId |-> id, Username |-> u]>>

\* The request names no record of the store.
NoRecord(req) == req.Username \notin DOMAIN users

\* The request names a record whose password is another one.
WrongPassword(req) ==
    /\ req.Username \in DOMAIN users
    /\ users[req.Username].Password # HashPassword(req.Password)

\* C23: in every store the service reaches, a SignIn that names no record
\* and a SignIn that names a record with another password are answered
\* alike, with Unauthenticated, the same message and no token; a failed
\* SignIn that was answered is answered as every other failing request
\* would be; and a SignIn step leaves the credential store as it is.
C23_SameAnswer ==
    /\ \A a \in AuthCredentials, b \in AuthCredentials :
          (NoRecord(a) /\ WrongPassword(b)) =>
             LET ra == SignInHandler(users, PlainCtx, a, now)
                 rb == SignInHandler(users, PlainCtx, b, now)
             IN  /\ ra.code = "Unauthenticated"
                 /\ rb.code = "Unauthenticated"
                 /\ ra.msg = rb.msg
                 /\ ra.body = <<>> /\ rb.body = <<>>
    /\ (reply.method = "SignIn" /\ reply.code # "OK") =>
          \A r \in AuthCredentials :
             (NoRecord(r) \/ WrongPassword(r)) =>
                SignInHandler(users, reply.ctx, r, now) = reply

C23_SignInFailure ==
    /\ []C23_SameAnswer
    /\ [][(reply' # reply /\ reply'.method = "SignIn") =>
             users' = users /\ created' = created]_vars

\* A SignIn failed in a store where one username has a record and another
\* has none, so both causes of failure exist.
C23_Witness ==
    /\ reply.method = "SignIn"
    /\ reply.code = "Unauthenticated"
    /\ \E a \in AuthCredentials : a.Username # "" /\ NoRecord(a)
    /\ \E b \in AuthCredentials : b.Password # "" /\ WrongPassword(b)

\* The identifier the next successful SignUp is given in store us.
NextUserID(us, req) == SignUpHandler(us, PlainCtx, req).reply.body

\* C24: in every store the service reaches, a SignUp with an empty username
\* or an empty password is answered InvalidArgument with no id, leaves the
\* store as it is, and leaves the id of the next successful SignUp as it
\* was; and a SignUp step answered InvalidArgument changes no record.
C24_Refused ==
    \A req \in AuthCredentials :
       (req.Username = "" \/ req.Password = "") =>
          LET h == SignUpHandler(users, PlainCtx, req)
          IN  /\ h.reply.code = "InvalidArgument"
              /\ h.reply.body = <<>>
              /\ h.users = users
              /\ \A next \in AuthCredentials :
                    (next.Username # "" /\ next.Password # "") =>
                       NextUserID(h.users, next) = NextUserID(users, next)

C24_EmptyCredentials ==
    /\ []C24_Refused
    /\ [][(reply' # reply /\ reply'.method = "SignUp"
              /\ reply'.code = "InvalidArgument") =>
             users' = users /\ returned' = returned]_vars

\* A SignUp was refused with InvalidArgument in a store that has a record.
C24_Witness ==
    /\ reply.method = "SignUp"
    /\ reply.code = "InvalidArgument"
    /\ DOMAIN users # {}

\* C27: a streaming call to SignUp or SignIn reaches its handler whatever
\* it presents, and a streaming call to any other method, those of
\* auth.AuthService included, reaches its handler only when it presents a
\* token that verifies.
C27_StreamBypass ==
    reply.method = "stream" =>
       /\ reply.body[1] \in {SignUpMethod, SignInMethod} => reply.handler
       /\ (reply.handler /\ reply.body[1] \notin {SignUpMethod, SignInMethod}) =>
             Genuine(reply.ctx)

(***************************************************************************)
(* Stored versions.                                                        *)
(***************************************************************************)
\* The version the store held under the id of download d when d looked it
\* up, as it was at the commit that wrote it.
SeenVersion(d) == SeenCommit(d).stored[1]

\* The k-th piece of chunkSize bytes of data.
Piece(data, k) == Slice(data, (k - 1) * chunkSize, Min(k * chunkSize, Len(data)))

C28_OneVersion ==
    /\ \A d \in DownloadCalls :
          (lookupVer[d] >= 1 /\ down[d].pc \in {"send", "done"}) =>
             /\ down[d].videoInfo = <<SeenVersion(d)>>
             /\ \A k \in 1..Len(down[d].sent) :
                   /\ down[d].sent[k].Data = Piece(SeenVersion(d).Data, k)
                   /\ down[d].sent[k].Metadata =
                         IF k = 1 THEN <<SeenVersion(d).Metadata>> ELSE <<>>
    /\ \A id \in VideoIds :
          Len(commits[id]) > 0 =>
             /\ Last(commits[id]).stored # <<>>
             /\ LookupVideo(videos, id) = Last(commits[id]).stored

\* C28: every chunk a download has sent is the piece, at that chunk's
\* position, of the one version its lookup found, and the metadata on the
\* first chunk is that version's, whatever was committed under the id
\* since; the entry under an id is always the version its last commit
\* stored, unaltered; and a download that is sending keeps the version it
\* holds from one step to the next.
C28_Snapshot ==
    /\ []C28_OneVersion
    /\ [][\A d \in DownloadCalls :
             (down[d].pc = "send" /\ down'[d].pc \in {"send", "done"}) =>
                down'[d].videoInfo = down[d].videoInfo]_vars

\* A download is between two chunks of version 1 while the store already
\* holds a second version, of other bytes, under the same id.
C28_Witness ==
    /\ down["d1"].pc = "send"
    /\ Len(down["d1"].sent) = 1
    /\ lookupVer["d1"] = 1
    /\ Len(commits[down["d1"].req]) = 2
    /\ videos[down["d1"].req].Data # SeenVersion("d1").Data

\* C29: a step in which an upload commits under an id leaves every other
\* id's membership in the store and its entry, payload and metadata, as
\* they were; and no step of an upload or a download takes an id out of the
\* store.
C29_Frame ==
    [][/\ DOMAIN videos \subseteq DOMAIN videos'
       /\ \A I \in VideoIds :
             Len(commits'[I]) > Len(commits[I]) =>
                \A J \in VideoIds \ {I} :
                   /\ (J \in DOMAIN videos') = (J \in DOMAIN videos)
                   /\ J \in DOMAIN videos =>
                         /\ videos'[J].Data = videos[J].Data
                         /\ videos'[J].Metadata = videos[J].Metadata]_vars

\* Both ids are stored, one of them committed after the other was, and a
\* download has run to its end.
C29_Witness ==
    /\ \A id \in VideoIds : id \in DOMAIN videos /\ Len(commits[id]) > 0
    /\ down["d1"].pc = "done"
    /\ down["d1"].code = "OK"

(***************************************************************************)
(* The outcome of an upload.                                               *)
(***************************************************************************)
\* The call returned what SendAndClose returned: it had reached the end of
\* its stream under an id.
Committed(u) ==
    /\ up[u].pc = "done"
    /\ \/ up[u].code = "OK" /\ up[u].resp # <<>>
       \/ up[u].code = "Unavailable" /\ up[u].resp = <<>>

\* The call returned an error status of its own, or never reached its
\* handler.
Aborted(u) ==
    /\ up[u].pc = "done"
    /\ up[u].code \in {"InvalidArgument", "Internal", "Unauthenticated"}
    /\ up[u].resp = <<>>

C26_OneOutcome ==
    \A u \in UploadCalls :
       /\ up[u].pc # "done" => writes[u] = 0 /\ ~Committed(u) /\ ~Aborted(u)
       /\ up[u].pc = "done" =>
             /\ Committed(u) # Aborted(u)
             /\ Committed(u) =>
                   /\ writes[u] = 1
                   /\ Cardinality({id \in VideoIds : u \in Committers(id)}) = 1
             /\ Aborted(u) =>
                   /\ writes[u] = 0
                   /\ \A id \in VideoIds : u \notin Committers(id)

\* C26: an upload that has not returned has written nothing to the store;
\* one that has returned is Committed or Aborted and not both, has assigned
\* to the store exactly once if Committed and never if Aborted; once it
\* has returned, its locals, its count of writes and its caller's stream
\* stay as they are, so no chunk is processed after the outcome; and every
\* upload that is receiving reaches its outcome.
C26_UploadOutcome ==
    /\ []C26_OneOutcome
    /\ [][\A u \in UploadCalls :
             up[u].pc = "done" =>
                /\ up'[u] = up[u]
                /\ writes'[u] = writes[u]
                /\ client'[u] = client[u]]_vars
    /\ \A u \in UploadCalls : (up[u].pc = "recv") ~> (up[u].pc = "done")

\* One upload ended Committed with its whole file and the other ended
\* Aborted on a receive error.
C26_Witness ==
    /\ Committed("u1")
    /\ writes["u1"] = 1
    /\ \E id \in VideoIds :
          "u1" \in Committers(id) /\ Len(CommitOf("u1", id).bytes) = MaxBytes
    /\ Aborted("u2")
    /\ up["u2"].handler
    /\ up["u2"].code = "Internal"

(***************************************************************************)
(* Concurrent sign-ups.                                                    *)
(***************************************************************************)
\* The SignUp calls that have returned.
Returned == {c \in SignUpCalls : su[c].pc = "done"}

\* The SignUp calls between Lock and the deferred Unlock.
InSignUp == {c \in SignUpCalls : su[c].pc \in {"id", "store", "unlock"}}

\* C30: the SignUp calls that have returned, each for a username of its
\* own on a store that began empty, have returned the ids user_1 .. user_k,
\* k being their number, each to one call, and each call's record carries
\* the id the call returned; at most one call is between computing its id
\* and inserting its record, and a call that has computed its id computed
\* it from the store as it still is.
C30_DistinctIds ==
    /\ \A c \in Returned : su[c].code = "OK" /\ su[c].resp # <<>>
    /\ {su[c].resp[1].UserId : c \in Returned} = {UserID(k) : k \in 1..Cardinality(Returned)}
    /\ \A c \in Returned, e \in Returned :
          su[c].resp[1].UserId = su[e].resp[1].UserId => c = e
    /\ \A c \in Returned :
          /\ NameOf(c) \in DOMAIN users
          /\ users[NameOf(c)].ID = su[c].resp[1].UserId
    /\ Cardinality(InSignUp) <= 1
    /\ \A c \in SignUpCalls :
          su[c].pc = "store" => su[c].userID = UserID(Cardinality(DOMAIN users) + 1)

\* All the calls have returned, and the call that got user_1 is not the
\* first of them.
C30_Witness ==
    /\ Returned = SignUpCalls
    /\ su["s3"].resp = <<[UserId |-> UserID(1)]>>
    /\ su["s1"].resp = <<[UserId |-> UserID(3)]>>

(***************************************************************************)
(* The scope of the object-store lock.                                     *)
(***************************************************************************)
\* The uploads between s.mu.Lock() and s.mu.Unlock(), and the downloads
\* between s.mu.RLock() and s.mu.RUnlock().
Writing == {u \in UploadCalls : up[u].pc \in {"store", "unlock"}}
Reading == {d \in DownloadCalls : down[d].pc \in {"read", "runlock"}}

\* The calls blocked in stream.Recv, stream.SendAndClose or stream.Send.
InRecvOrSend ==
    {u \in UploadCalls : up[u].pc \in {"recv", "respond"}}
    \cup {d \in DownloadCalls : down[d].pc = "send"}

C25_Scope ==
    /\ \A c \in InRecvOrSend : mu.writer # c /\ c \notin mu.readers
    /\ \A u \in UploadCalls : (mu.writer = u) = (u \in Writing)
    /\ \A d \in DownloadCalls : (d \in mu.readers) = (d \in Reading)
    /\ mu.writer \in UploadCalls \cup {""}
    /\ mu.readers \subseteq DownloadCalls
    /\ Cardinality(Writing) <= 1
    /\ Writing # {} => Reading = {}
    /\ \A u \in UploadCalls :
          /\ up[u].pc \in {"recv", "lock", "store"} => writes[u] = 0
          /\ up[u].pc \in {"unlock", "respond"} => writes[u] = 1

\* C25: a call waiting in a stream receive or send holds the lock in
\* neither mode; the write lock is held by an upload exactly from Lock to
\* Unlock, and all the holder does meanwhile is the one map assignment; the
\* read lock is held by a download exactly from RLock to RUnlock, and all a
\* holder does meanwhile is the one lookup, which leaves the store as it
\* is; while an upload holds the write lock no download holds the read lock
\* and no other upload holds the write lock.
C25_LockScope ==
    /\ []C25_Scope
    /\ [][\A u \in UploadCalls :
             (mu.writer = u /\ mu'.writer = u /\ up'[u] # up[u]) =>
                /\ writes'[u] = writes[u] + 1
                /\ up'[u] = [up[u] EXCEPT !.pc = "unlock"]
                /\ DOMAIN videos' = DOMAIN videos \cup {up[u].videoID}
                /\ \A id \in DOMAIN videos \ {up[u].videoID} : videos'[id] = videos[id]]_vars
    /\ [][\A d \in DownloadCalls :
             (d \in mu.readers /\ d \in mu'.readers /\ down'[d] # down[d]) =>
                /\ videos' = videos
                /\ down'[d] = [down[d] EXCEPT !.pc = "runlock",
                                              !.videoInfo = LookupVideo(videos, down[d].req)]]_vars

\* Two downloads are in their critical sections at once, one about to look
\* the id up and one having found it, while an upload waits for the lock.
C25_Witness ==
    /\ Reading = DownloadCalls
    /\ mu.readers = DownloadCalls
    /\ down["d1"].pc = "read"
    /\ down["d2"].pc = "runlock" /\ down["d2"].videoInfo # <<>>
    /\ \E u \in UploadCalls : up[u].pc = "lock"

====
